---- MODULE Spec2Model ----
(***************************************************************************)
(* A model of tensorez/util.py: the image loader read_image (with its      *)
(* crop policy crop_image and the Bayer colour balance of the raw path)    *)
(* and the centre-of-mass alignment (center_of_mass, pad_image,            *)
(* center_image, center_image_per_channel).                                *)
(*                                                                         *)
(* Python indices are 0-based, so tensors are functions over 0..n-1.       *)
(* float32 values are modelled by exact rationals: a pixel is an integer   *)
(* numerator over the denominator kept in the image record, a centroid is  *)
(* a numerator/denominator pair that is truncated exactly.                 *)
(***************************************************************************)
EXTENDS Integers, Sequences, FiniteSets, TLC

\* ------------------------------------------------------------------ bounds
\* largest height and width of a sensor plane / decoded picture
MaxSensor == 6
\* largest crop_align
MaxAlign == 2

\* ------------------------------------------------------- program constants
\* the white balance is divided by 16383.0 (full scale of a 14 bit sensor)
ScaleDen == 16383
\* 8 bit pictures are divided by 255.0
ByteDen == 255

VARIABLES
    args,       \* the arguments of the running read_image call
    file,       \* what the named file holds: the plane and the raw metadata
    pc,         \* the statement of read_image that runs next
    image,      \* the local variable image of read_image
    x, y,       \* the crop origin computed by the last crop_image
    decodes,    \* the decoders that were run, in order
    raw,        \* the rawpy handle: "none", "open" or "released"
    rawReads,   \* the reads of the handle: <<attribute, state of the handle>>
    warned,     \* TRUE once the Bayer pattern warning is printed
    returned,   \* the image read_image returned, NoImage before
    tensor,     \* the image handed to the centring call
    op,         \* the centring function that was called, "none" before
    opts,       \* its arguments pad and only_even_shifts
    shift,      \* the shift it rolled by, one <<x, y>> per rolled tensor
    centered    \* the image it returned

readVars == <<args, file, pc, image, x, y, decodes, raw, rawReads, warned, returned>>
centerVars == <<tensor, op, opts, shift, centered>>
vars == <<args, file, pc, image, x, y, decodes, raw, rawReads, warned, returned,
          tensor, op, opts, shift, centered>>

\* the centring side before any call
NoTensor == [h |-> 0, w |-> 0, c |-> 0, pix |-> <<>>]
NoOpts == [pad |-> 0, only_even_shifts |-> FALSE]
CenterIdle ==
    /\ tensor = NoTensor
    /\ op = "none"
    /\ opts = NoOpts
    /\ shift = <<>>
    /\ centered = NoTensor

\* a Python tuple or list as a 0-based function
Z(s) == [i \in 0..(Len(s) - 1) |-> s[i + 1]]

Abs(n) == IF n < 0 THEN -n ELSE n

\* ---------------------------------------------------------------- fnmatch
\* file names are tuples of characters
Name(base, ext) == base \o <<".">> \o ext

FileNames == { Name(<<"m","4","2">>, <<"t","i","f">>),
               Name(<<"m","4","2">>, <<"t","i","f","f">>),
               Name(<<"m","4","2">>, <<"c","r","2">>),
               Name(<<"m","4","2">>, <<"p","n","g">>) }

\* fnmatch.fnmatch(filename, '*' + suffix): the name ends with the suffix
\* (case sensitive, as on POSIX)
fnmatch(name, suffix) ==
    /\ Len(name) >= Len(suffix)
    /\ SubSeq(name, Len(name) - Len(suffix) + 1, Len(name)) = suffix

IsTif(name) == fnmatch(name, <<".","t","i","f">>) \/ fnmatch(name, <<".","t","i","f","f">>)
IsCr2(name) == fnmatch(name, <<".","c","r","2">>)

\* ------------------------------------------------------------------ images
\* crop = None
None == <<>>

NoImage == [decoder |-> "none", h |-> 0, w |-> 0, pix |-> <<>>, dtype |-> "none",
            den |-> 1, space |-> "none", chans |-> 0, owner |-> "none"]

Coords(h, w) == (0..(h - 1)) \X (0..(w - 1))

\* the value the file holds at row r, column c
Plane(f, r, c) == f.seed + 16 * r + c

\* the array a decoder hands out for the file
Decoded(f, decoder, dtype, owner) ==
    [decoder |-> decoder, h |-> f.h, w |-> f.w,
     pix |-> [p \in Coords(f.h, f.w) |-> Plane(f, p[1], p[2])],
     dtype |-> dtype, den |-> 1, space |-> "srgb", chans |-> 1, owner |-> owner]

\* ------------------------------------------------------------- crop_image
\* a[start:stop] on an axis of length n: the index range Python slices
PyIndex(n, i) == IF i < 0 THEN (IF n + i < 0 THEN 0 ELSE n + i) ELSE (IF i > n THEN n ELSE i)
SliceLo(n, start, stop) == PyIndex(n, start)
SliceLen(n, start, stop) ==
    IF PyIndex(n, stop) > PyIndex(n, start) THEN PyIndex(n, stop) - PyIndex(n, start) ELSE 0

crop_x_unaligned(img, crop, crop_align) == (img.w - crop[1]) \div 2
crop_x(img, crop, crop_align) == (((img.w - crop[1]) \div 2) \div crop_align) * crop_align
crop_y(img, crop, crop_align) == (((img.h - crop[2]) \div 2) \div crop_align) * crop_align

crop_image_short(img, crop, crop_align) ==
    IF crop = None THEN img
    ELSE LET cx == crop_x(img, crop, crop_align)
             cy == crop_y(img, crop, crop_align)
             nh == SliceLen(img.h, cy, cy + crop[2] - 1)
             nw == SliceLen(img.w, cx, cx + crop[1] - 1)
             ly == SliceLo(img.h, cy, cy + crop[2] - 1)
             lx == SliceLo(img.w, cx, cx + crop[1] - 1)
         IN [img EXCEPT !.h = nh, !.w = nw,
                        !.pix = [p \in Coords(nh, nw) |-> img.pix[<<ly + p[1], lx + p[2]>>]]]
crop_image(img, crop, crop_align) ==
    IF crop = None THEN img
    ELSE LET cx == crop_x(img, crop, crop_align)
             cy == crop_y(img, crop, crop_align)
             nh == SliceLen(img.h, cy, cy + crop[2])
             nw == SliceLen(img.w, cx, cx + crop[1])
             ly == SliceLo(img.h, cy, cy + crop[2])
             lx == SliceLo(img.w, cx, cx + crop[1])
         IN [img EXCEPT !.h = nh, !.w = nw,
                        !.pix = [p \in Coords(nh, nw) |-> img.pix[<<ly + p[1], lx + p[2]>>]]]

\* the locals x and y of crop_image (they keep their value when crop is None)
CropOriginX(img) == IF args.crop = None THEN x ELSE crop_x(img, args.crop, args.crop_align)
CropOriginY(img) == IF args.crop = None THEN y ELSE crop_y(img, args.crop, args.crop_align)

\* ------------------------------------------------------- the raw metadata
\* raw.raw_pattern, raw.color_desc, raw.black_level_per_channel and
\* raw.daylight_whitebalance of two cameras: an RGGB sensor and a GBRG one
RawMetas ==
    { [raw_pattern |-> Z(<<Z(<<0, 1>>), Z(<<3, 2>>)>>),
       color_desc |-> Z(<<"R", "G", "B", "G">>),
       black_level_per_channel |-> Z(<<1, 2, 3, 4>>),
       daylight_whitebalance |-> Z(<<5, 3, 7, 0>>)],
      [raw_pattern |-> Z(<<Z(<<3, 2>>), Z(<<0, 1>>)>>),
       color_desc |-> Z(<<"R", "G", "B", "G">>),
       black_level_per_channel |-> Z(<<2, 2, 6, 9>>),
       daylight_whitebalance |-> Z(<<4, 2, 3, 0>>)] }

\* a picture file carries no raw metadata
NoMeta == <<>>

Files == { [h |-> fh, w |-> fw, seed |-> 0, meta |-> m] :
             fh \in 1..MaxSensor, fw \in 1..MaxSensor, m \in RawMetas \cup {NoMeta} }

Crops == {None} \cup ((1..MaxSensor) \X (1..MaxSensor))

Args == [filename : FileNames, to_float : BOOLEAN, srgb_to_linear : BOOLEAN,
         crop : Crops, crop_align : 1..MaxAlign, color_balance : BOOLEAN,
         demosaic : BOOLEAN]

\* ---------------------------------------------------------- colour balance
\* scale_tile before the division by 16383.0, and black_tile
scale_tile(m) ==
    Z(<<Z(<<m.daylight_whitebalance[0], m.daylight_whitebalance[1]>>),
        Z(<<m.daylight_whitebalance[1], m.daylight_whitebalance[2]>>)>>)
black_tile(m) ==
    Z(<<Z(<<m.black_level_per_channel[m.raw_pattern[0][0]],
            m.black_level_per_channel[m.raw_pattern[0][1]]>>),
        Z(<<m.black_level_per_channel[m.raw_pattern[1][0]],
            m.black_level_per_channel[m.raw_pattern[1][1]]>>)>>)

\* tf.tile(tile, multiples = (mh, mw)): a (2 mh) x (2 mw) matrix
tf_tile_transposed(tile, mh, mw) == [p \in Coords(2 * mh, 2 * mw) |-> tile[p[2] % 2][p[1] % 2]]
tf_tile(tile, mh, mw) == [p \in Coords(2 * mh, 2 * mw) |-> tile[p[1] % 2][p[2] % 2]]

\* tf.reshape of an (th x tw) matrix to the shape [1, h, w, 1]: the elements
\* in row-major order; it raises unless the element counts agree
ReshapeOk(th, tw, h, w) == th * tw = h * w
tf_reshape(m, th, tw, h, w) ==
    [p \in Coords(h, w) |-> m[<<(p[1] * w + p[2]) \div tw, (p[1] * w + p[2]) % tw>>]]

BalanceOk(img) == ReshapeOk(2 * (img.h \div 2), 2 * (img.w \div 2), img.h, img.w)

\* image = (image - black) * scale, in units of 1/16383
color_balanced(img, m) ==
    LET mh == img.h \div 2
        mw == img.w \div 2
        scale == tf_reshape(tf_tile(scale_tile(m), mh, mw), 2 * mh, 2 * mw, img.h, img.w)
        black == tf_reshape(tf_tile(black_tile(m), mh, mw), 2 * mh, 2 * mw, img.h, img.w)
    IN [img EXCEPT !.pix = [p \in Coords(img.h, img.w) |-> (img.pix[p] - black[p]) * scale[p]],
                   !.den = ScaleDen, !.space = "linear"]

\* the Bayer pattern test of lines 64-67
WeirdPattern(m) ==
    \/ m.color_desc[m.raw_pattern[0][0]] # "R"
    \/ m.color_desc[m.raw_pattern[0][1]] # "G"
    \/ m.color_desc[m.raw_pattern[1][0]] # "G"
    \/ m.color_desc[m.raw_pattern[1][1]] # "B"

\* apply_demosaic_filter(image, demosaic_kernels_rggb): three channels of the
\* same height and width (the interpolated values are not modelled)
apply_demosaic_filter(img) == [img EXCEPT !.chans = 3]

\* --------------------------------------------------------------- read_image
\* the statements of the block "with rawpy.imread(filename) as raw", in order;
\* the handle is released when the block is left
RawStepsEarlyRelease ==
    <<"raw_open", "raw_copy", "raw_release", "raw_crop", "raw_cast", "raw_warn",
      "raw_balance", "raw_demosaic">>
RawSteps ==
    <<"raw_open", "raw_copy", "raw_crop", "raw_cast", "raw_warn", "raw_balance",
      "raw_demosaic", "raw_release">>

RawIndex(step) == CHOOSE i \in 1..Len(RawSteps) : RawSteps[i] = step
After(step) ==
    IF RawIndex(step) = Len(RawSteps) THEN "return" ELSE RawSteps[RawIndex(step) + 1]

\* a call of read_image on a file. The raw path never reads srgb_to_linear and
\* the standard path never reads color_balance and demosaic: an argument the
\* path does not read is left at its default
ReadInit ==
    /\ CenterIdle
    /\ args \in Args
    /\ file \in Files
    /\ IF IsCr2(args.filename)
       THEN args.srgb_to_linear /\ file.meta \in RawMetas
       ELSE args.color_balance /\ args.demosaic /\ file.meta = NoMeta
    /\ pc = "tif_test"
    /\ image = NoImage
    /\ x = 0
    /\ y = 0
    /\ decodes = <<>>
    /\ raw = "none"
    /\ rawReads = {}
    /\ warned = FALSE
    /\ returned = NoImage

\* an exception leaves read_image; leaving the with block releases the handle
Raise ==
    /\ pc' = "raised"
    /\ raw' = IF raw = "open" THEN "released" ELSE raw

Reads(attrs) == rawReads' = rawReads \cup { <<a, raw>> : a \in attrs }

\* lines 40-43: the first if
TifBranch ==
    /\ pc = "tif_test"
    /\ IF IsTif(args.filename)
       THEN \E ok \in BOOLEAN :
              /\ decodes' = Append(decodes, "PIL")
              /\ IF ok
                 THEN LET arr == Decoded(file, "PIL", "uint8", "owned")
                      IN /\ image' = crop_image(arr, args.crop, args.crop_align)
                         /\ x' = CropOriginX(arr)
                         /\ y' = CropOriginY(arr)
                         /\ pc' = "cr2_test"
                         /\ UNCHANGED raw
                 ELSE /\ Raise
                      /\ UNCHANGED <<image, x, y>>
       ELSE /\ pc' = "cr2_test"
            /\ UNCHANGED <<image, x, y, decodes, raw>>
    /\ UNCHANGED <<args, file, rawReads, warned, returned>>
    /\ UNCHANGED centerVars

\* line 44 and line 92: the second if and its else
Cr2Branch ==
    /\ pc = "cr2_test"
    /\ pc' = IF IsCr2(args.filename) THEN RawSteps[1] ELSE "std_decode"
    /\ UNCHANGED <<args, file, image, x, y, decodes, raw, rawReads, warned, returned>>
    /\ UNCHANGED centerVars

\* line 48: rawpy.imread
RawOpen ==
    /\ pc = "raw_open"
    /\ decodes' = Append(decodes, "rawpy")
    /\ \E ok \in BOOLEAN :
         IF ok THEN raw' = "open" /\ pc' = After("raw_open")
               ELSE Raise
    /\ UNCHANGED <<args, file, image, x, y, rawReads, warned, returned>>
    /\ UNCHANGED centerVars

\* lines 51-53: np.copy(raw.raw_image_visible) and the two expand_dims
RawCopy ==
    /\ pc = "raw_copy"
    /\ Reads({"raw_image_visible"})
    /\ image' = Decoded(file, "rawpy", "uint16", "owned")
    /\ pc' = After("raw_copy")
    /\ UNCHANGED <<args, file, x, y, decodes, raw, warned, returned>>
    /\ UNCHANGED centerVars

\* line 54
RawCrop ==
    /\ pc = "raw_crop"
    /\ image' = crop_image(image, args.crop, args.crop_align)
    /\ x' = CropOriginX(image)
    /\ y' = CropOriginY(image)
    /\ pc' = After("raw_crop")
    /\ UNCHANGED <<args, file, decodes, raw, rawReads, warned, returned>>
    /\ UNCHANGED centerVars

\* lines 60-61: everything up to the demosaic is inside "if to_float"
RawCast ==
    /\ pc = "raw_cast"
    /\ IF args.to_float
       THEN /\ image' = [image EXCEPT !.dtype = "float32"]
            /\ pc' = After("raw_cast")
       ELSE /\ pc' = After("raw_demosaic")
            /\ UNCHANGED image
    /\ UNCHANGED <<args, file, x, y, decodes, raw, rawReads, warned, returned>>
    /\ UNCHANGED centerVars

\* lines 63-68: "and" reads the handle only when a flag is set
RawWarn ==
    /\ pc = "raw_warn"
    /\ IF args.color_balance \/ args.demosaic
       THEN /\ Reads({"color_desc", "raw_pattern"})
            /\ warned' = WeirdPattern(file.meta)
       ELSE UNCHANGED <<rawReads, warned>>
    /\ pc' = After("raw_warn")
    /\ UNCHANGED <<args, file, image, x, y, decodes, raw, returned>>
    /\ UNCHANGED centerVars

\* lines 70-86; tf.reshape raises when the tiles do not fill the image
RawBalance ==
    /\ pc = "raw_balance"
    /\ IF args.color_balance
       THEN /\ Reads({"daylight_whitebalance", "black_level_per_channel", "raw_pattern"})
            /\ IF BalanceOk(image)
               THEN /\ image' = color_balanced(image, file.meta)
                    /\ pc' = After("raw_balance")
                    /\ UNCHANGED raw
               ELSE /\ Raise
                    /\ UNCHANGED image
       ELSE /\ pc' = After("raw_balance")
            /\ UNCHANGED <<image, raw, rawReads>>
    /\ UNCHANGED <<args, file, x, y, decodes, warned, returned>>
    /\ UNCHANGED centerVars

\* lines 88-89
RawDemosaic ==
    /\ pc = "raw_demosaic"
    /\ image' = IF args.demosaic THEN apply_demosaic_filter(image) ELSE image
    /\ pc' = After("raw_demosaic")
    /\ UNCHANGED <<args, file, x, y, decodes, raw, rawReads, warned, returned>>
    /\ UNCHANGED centerVars

\* the end of the with block
RawRelease ==
    /\ pc = "raw_release"
    /\ raw' = "released"
    /\ pc' = After("raw_release")
    /\ UNCHANGED <<args, file, image, x, y, decodes, rawReads, warned, returned>>
    /\ UNCHANGED centerVars

\* lines 93-95: tf.io.read_file, tf.io.decode_image and the crop
StdDecode ==
    /\ pc = "std_decode"
    /\ decodes' = Append(decodes, "tf")
    /\ \E ok \in BOOLEAN :
         IF ok
         THEN LET arr == Decoded(file, "tf", "uint8", "owned")
              IN /\ image' = crop_image(arr, args.crop, args.crop_align)
                 /\ x' = CropOriginX(arr)
                 /\ y' = CropOriginY(arr)
                 /\ pc' = "std_float"
                 /\ UNCHANGED raw
         ELSE /\ Raise
              /\ UNCHANGED <<image, x, y>>
    /\ UNCHANGED <<args, file, rawReads, warned, returned>>
    /\ UNCHANGED centerVars

\* lines 96-99
StdFloat ==
    /\ pc = "std_float"
    /\ image' = IF args.to_float
                THEN [image EXCEPT !.dtype = "float32", !.den = ByteDen,
                                   !.space = IF args.srgb_to_linear THEN "linear" ELSE "srgb"]
                ELSE image
    /\ pc' = "return"
    /\ UNCHANGED <<args, file, x, y, decodes, raw, rawReads, warned, returned>>
    /\ UNCHANGED centerVars

\* line 100
Return ==
    /\ pc = "return"
    /\ returned' = image
    /\ pc' = "done"
    /\ UNCHANGED <<args, file, image, x, y, decodes, raw, rawReads, warned>>
    /\ UNCHANGED centerVars

ReadNext ==
    \/ TifBranch \/ Cr2Branch
    \/ RawOpen \/ RawCopy \/ RawCrop \/ RawCast \/ RawWarn \/ RawBalance
    \/ RawDemosaic \/ RawRelease
    \/ StdDecode \/ StdFloat
    \/ Return


\* ---------------------------------------------------------------- centring
\* an image [H, W, C] is a record h, w, c, pix; pix holds the elements in
\* row-major order, element (row, column, channel) at Flat(...)
Size(t) == t.h * t.w * t.c
Flat(t, row, col, ch) == (row * t.w + col) * t.c + ch
RowOf(t, k) == k \div (t.w * t.c)
ColOf(t, k) == (k \div t.c) % t.w
ChanOf(t, k) == k % t.c

\* get_spatial_dims(): the axes -2 (width) and -3 (height)
get_spatial_dims == <<-2, -3>>

\* image.shape[dim] and the index of element k along dim
Shape(t, dim) == IF dim = -2 THEN t.w ELSE t.h
Along(t, k, dim) == IF dim = -2 THEN ColOf(t, k) ELSE RowOf(t, k)

\* tf.linspace(-n / 2.0, n / 2.0, n)[i] is linspace(n, i) / linspace_den(n);
\* a single point is the start alone
linspace_den(n) == IF n = 1 THEN 2 ELSE 2 * (n - 1)
linspace_from_zero(n, i) == IF n = 1 THEN 0 ELSE 2 * i * n
linspace(n, i) == IF n = 1 THEN -1 ELSE 2 * i * n - n * (n - 1)

RECURSIVE SumUpTo(_, _)
\* f[0] + ... + f[n - 1]
SumUpTo(f, n) == IF n = 0 THEN 0 ELSE f[n - 1] + SumUpTo(f, n - 1)

\* tf.reduce_sum over the channels and the spatial dimensions
total_mass(t) == SumUpTo(t.pix, Size(t))

\* the sum of the moments along dim, in units of 1 / linspace_den
moment(t, dim) ==
    SumUpTo([k \in 0..(Size(t) - 1) |-> t.pix[k] * linspace(Shape(t, dim), Along(t, k, dim))],
            Size(t))

\* center_of_mass(image): per spatial dimension the rational
\* <<numerator, denominator>> of moment / total_mass
center_of_mass(t) ==
    LET total == total_mass(t)
    IN << <<moment(t, get_spatial_dims[1]), linspace_den(Shape(t, get_spatial_dims[1])) * total>>,
          <<moment(t, get_spatial_dims[2]), linspace_den(Shape(t, get_spatial_dims[2])) * total>> >>

\* pad_image: zeros around height and width unless pad is 0
pad_image(t, pad) ==
    IF pad = 0 THEN t
    ELSE LET p == [h |-> t.h + 2 * pad, w |-> t.w + 2 * pad, c |-> t.c]
         IN [h |-> p.h, w |-> p.w, c |-> p.c,
             pix |-> [k \in 0..(p.h * p.w * p.c - 1) |->
                        IF /\ RowOf(p, k) >= pad /\ RowOf(p, k) < t.h + pad
                           /\ ColOf(p, k) >= pad /\ ColOf(p, k) < t.w + pad
                        THEN t.pix[Flat(t, RowOf(p, k) - pad, ColOf(p, k) - pad, ChanOf(p, k))]
                        ELSE 0]]

\* ------------------------------------------------------------ int32 values
IntMin == -2147483647 - 1
IntMax == 2147483647

\* n / d truncated toward zero
TruncDiv(n, d) == IF (n < 0) = (d < 0) THEN Abs(n) \div Abs(d) ELSE -(Abs(n) \div Abs(d))

\* what a cast of a non-finite float to int32 gives depends on the platform:
\* the x86 conversion gives INT_MIN, a saturating one clamps (NaN to 0)
Platforms == {"x86", "saturating"}
\* tf.cast(r, tf.int32) of the rational r = <<n, d>>; d = 0 is inf or NaN
cast_int32(r, platform) ==
    IF r[2] # 0 THEN TruncDiv(r[1], r[2])
    ELSE IF platform = "x86" THEN IntMin
    ELSE IF r[1] > 0 THEN IntMax
    ELSE IF r[1] < 0 THEN IntMin ELSE 0

RECURSIVE bitwise_and(_, _)
\* tf.bitwise.bitwise_and on two's complement integers, bit by bit: the low
\* bits and the and of the arithmetic right shifts
bitwise_keep_all(a, b) == a
bitwise_toward_zero(a, b) == IF a < 0 THEN a + (a % 2) ELSE a - (a % 2)
bitwise_and(a, b) ==
    IF a = 0 \/ b = 0 THEN 0
    ELSE IF a = -1 THEN b
    ELSE IF b = -1 THEN a
    ELSE (a % 2) * (b % 2) + 2 * bitwise_and(a \div 2, b \div 2)

\* shift * -1 in int32: INT_MIN wraps to itself
Negate32(n) == IF n = IntMin THEN IntMin ELSE -n

\* lines 184-191 of center_image for one spatial dimension with centroid com:
\* the cast, the optional mask and the negation
shift_in_dim(com, only_even_shifts, platform) ==
    LET s == cast_int32(com, platform)
    IN Negate32(IF only_even_shifts THEN bitwise_and(s, -2) ELSE s)

\* the shift tensor of center_image: <<along the width, along the height>>
center_shift(t, only_even_shifts, platform) ==
    LET com == center_of_mass(t)
    IN <<shift_in_dim(com[1], only_even_shifts, platform),
         shift_in_dim(com[2], only_even_shifts, platform)>>

\* tf.roll(image, shift, axis = [-2, -3]): element i moves to (i + shift) mod size
tf_roll_backwards(t, sh) ==
    [t EXCEPT !.pix = [k \in 0..(Size(t) - 1) |->
                         t.pix[Flat(t, (RowOf(t, k) + (sh[2] % t.h)) % t.h,
                                       (ColOf(t, k) + (sh[1] % t.w)) % t.w,
                                       ChanOf(t, k))]]]
tf_roll(t, sh) ==
    [t EXCEPT !.pix = [k \in 0..(Size(t) - 1) |->
                         t.pix[Flat(t, (RowOf(t, k) - (sh[2] % t.h)) % t.h,
                                       (ColOf(t, k) - (sh[1] % t.w)) % t.w,
                                       ChanOf(t, k))]]]

\* center_image: the local shift and the image it returns
center_image_run(t, pad, only_even_shifts, platform) ==
    LET padded == pad_image(t, pad)
        sh == center_shift(padded, only_even_shifts, platform)
    IN [shift |-> sh, image |-> tf_roll(padded, sh)]

center_image(t, pad, only_even_shifts, platform) ==
    center_image_run(t, pad, only_even_shifts, platform).image

\* tf.unstack along the channels followed by expand_dims: channel ch as [H, W, 1]
Channel(t, ch) ==
    [h |-> t.h, w |-> t.w, c |-> 1,
     pix |-> [k \in 0..(t.h * t.w - 1) |-> t.pix[k * t.c + ch]]]

RECURSIVE MapChannels(_, _, _)
\* list(map(func, tf.unstack(tensor, axis))) for the first n channels; func is
\* a function on the unstacked channels
MapChannels(func, t, n) ==
    IF n = 0 THEN <<>> ELSE Append(MapChannels(func, t, n - 1), func[Channel(t, n - 1)])

\* map_along_tensor_axis(func, tensor, axis = -1, keepdims = True): func on every
\* channel, the results concatenated along the channels
map_along_tensor_axis(func, t) ==
    LET outs == MapChannels(func, t, t.c)
    IN [h |-> outs[1].h, w |-> outs[1].w, c |-> t.c,
        pix |-> [k \in 0..(outs[1].h * outs[1].w * t.c - 1) |->
                   outs[(k % t.c) + 1].pix[k \div t.c]]]

\* center_image_per_channel(image, pad, **kwargs): pad is bound by the named
\* parameter and not passed on, center_image runs with its default pad = 0
center_image_per_channel(t, pad, only_even_shifts, platform) ==
    LET func == [unstacked \in { Channel(t, ch) : ch \in 0..(t.c - 1) } |->
                   center_image(unstacked, 0, only_even_shifts, platform)]
    IN map_along_tensor_axis(func, t)

\* the shifts the channels are rolled by
channel_shifts(t, pad, only_even_shifts, platform) ==
    [ch \in 1..t.c |-> center_image_run(Channel(t, ch - 1), 0, only_even_shifts, platform).shift]

\* ------------------------------------------------------ the centring inputs
\* largest height and width of an image to centre
MaxDim == 4
\* largest number of channels
MaxChan == 2
\* largest pad
MaxPad == 1
\* the values of the pixels that are set
PixelValues == {-1, 1, 2}

\* the black image with v1 added at row-major position p1 of the first channel
\* and v2 added at position p2 of the last channel
TwoPixels(h, w, c, p1, v1, p2, v2) ==
    [h |-> h, w |-> w, c |-> c,
     pix |-> [k \in 0..(h * w * c - 1) |->
                (IF k = p1 * c THEN v1 ELSE 0) + (IF k = p2 * c + (c - 1) THEN v2 ELSE 0)]]

ReadIdle ==
    /\ args = [filename |-> <<>>, to_float |-> FALSE, srgb_to_linear |-> FALSE,
               crop |-> None, crop_align |-> 1, color_balance |-> FALSE, demosaic |-> FALSE]
    /\ file = [h |-> 0, w |-> 0, seed |-> 0, meta |-> <<>>]
    /\ pc = "idle"
    /\ image = NoImage
    /\ x = 0
    /\ y = 0
    /\ decodes = <<>>
    /\ raw = "none"
    /\ rawReads = {}
    /\ warned = FALSE
    /\ returned = NoImage

\* center_image is given a one channel image with two pixels set, or an image
\* of MaxChan channels with one pixel set in its first and last channel
CenterInit ==
    /\ ReadIdle
    /\ \E h \in 1..MaxDim, w \in 1..MaxDim, c \in {1, MaxChan} :
         \E p1 \in 0..(h * w - 1), v1 \in PixelValues :
            \E p2 \in (IF c = 1 THEN p1..(h * w - 1) ELSE {p1}), v2 \in PixelValues :
               tensor = TwoPixels(h, w, c, p1, v1, p2, v2)
    /\ op = "none"
    /\ opts = NoOpts
    /\ shift = <<>>
    /\ centered = NoTensor

\* center_image_per_channel is given an image with a pixel set in its first
\* channel and a pixel set in its last channel
ChannelsInit ==
    /\ ReadIdle
    /\ \E h \in 1..MaxDim, w \in 1..MaxDim, c \in 1..MaxChan :
         \E p1 \in 0..(h * w - 1), v1 \in PixelValues :
            \E p2 \in (IF c = 1 THEN p1..(h * w - 1) ELSE 0..(h * w - 1)), v2 \in PixelValues :
               tensor = TwoPixels(h, w, c, p1, v1, p2, v2)
    /\ op = "none"
    /\ opts = NoOpts
    /\ shift = <<>>
    /\ centered = NoTensor

\* the platforms that can tell the results apart
PlatformsFor(t) == IF total_mass(t) = 0 THEN Platforms ELSE {"x86"}

\* center_image(image, pad, only_even_shifts)
CenterImage ==
    /\ op = "none"
    /\ \E pad \in {0, MaxPad}, even \in BOOLEAN :
         \E platform \in PlatformsFor(tensor) :
            /\ opts' = [pad |-> pad, only_even_shifts |-> even]
            /\ shift' = <<center_image_run(tensor, pad, even, platform).shift>>
            /\ centered' = tf_roll(pad_image(tensor, pad), shift'[1])
    /\ op' = "center_image"
    /\ UNCHANGED <<tensor, readVars>>

\* center_image_per_channel(image, pad, only_even_shifts = ...)
CenterImagePerChannel ==
    /\ op = "none"
    /\ \E pad \in {0, MaxPad}, even \in BOOLEAN :
         \E platform \in UNION { PlatformsFor(Channel(tensor, ch)) : ch \in 0..(tensor.c - 1) } :
            /\ opts' = [pad |-> pad, only_even_shifts |-> even]
            /\ shift' = channel_shifts(tensor, pad, even, platform)
            /\ centered' = center_image_per_channel(tensor, pad, even, platform)
    /\ op' = "center_image_per_channel"
    /\ UNCHANGED <<tensor, readVars>>

SpecCenter == CenterInit /\ [][CenterImage]_vars
SpecChannels == ChannelsInit /\ [][CenterImagePerChannel]_vars

\* ================================================================ read_image
\* the crop asked for is no larger than the picture
CropFits == args.crop # None /\ args.crop[1] <= file.w /\ args.crop[2] <= file.h

\* image holds the result of crop_image
Cropped == image.decoder # "none" /\ pc # "raw_crop"

\* image holds the result of the colour balance, not yet demosaiced
Balanced == image.decoder = "rawpy" /\ image.den = ScaleDen /\ image.chans = 1

IsEven(n) == n % 2 = 0

\* C1: for every filename read_image runs exactly one decode path: a .tif or
\* .tiff name is decoded once, by the standard image decode (PIL), and that
\* result is returned; a .cr2 name is decoded by the raw path only; no second
\* decode runs or overwrites the image of the first.
C1_OneDecodePath ==
    /\ Len(decodes) <= 1
    /\ pc = "done" =>
         /\ Len(decodes) = 1
         /\ IsTif(args.filename) => decodes = <<"PIL">> /\ returned.decoder = "PIL"
         /\ IsCr2(args.filename) => decodes = <<"rawpy">> /\ returned.decoder = "rawpy"

\* C2: on the raw path with color_balance, for a plane cropped with an even
\* crop_align to an even width and height (or not cropped, with even sensor
\* dimensions), the balanced image has the shape of the cropped input and the
\* pixel that came from sensor coordinate (r, c) is
\* (value - black_tile[r % 2, c % 2]) * scale_tile[r % 2, c % 2] / 16383.
C2_BalanceByParity ==
    ( /\ Balanced
      /\ IsEven(args.crop_align)
      /\ \/ args.crop = None /\ IsEven(file.h) /\ IsEven(file.w)
         \/ CropFits /\ IsEven(args.crop[1]) /\ IsEven(args.crop[2]) )
    => /\ image.h = (IF args.crop = None THEN file.h ELSE args.crop[2])
       /\ image.w = (IF args.crop = None THEN file.w ELSE args.crop[1])
       /\ \A p \in Coords(image.h, image.w) :
            LET r == y + p[1]
                c == x + p[2]
            IN image.pix[p] = (Plane(file, r, c) - black_tile(file.meta)[r % 2][c % 2])
                                * scale_tile(file.meta)[r % 2][c % 2]

\* a balanced 2 x 2 crop taken at sensor coordinate (2, 2) is returned
C2_Witness ==
    /\ pc = "done"
    /\ args.color_balance /\ ~args.demosaic
    /\ returned.den = ScaleDen
    /\ CropFits /\ args.crop = <<2, 2>> /\ args.crop_align = 2
    /\ x = 2 /\ y = 2

\* C3: for every original size, every requested crop no larger than it and
\* every alignment A >= 1, the crop origin (x, y) crop_image computes is a
\* non-negative multiple of A in both coordinates.
C3_OriginAligned ==
    (Cropped /\ CropFits)
    => /\ x >= 0 /\ x % args.crop_align = 0
       /\ y >= 0 /\ y % args.crop_align = 0

\* a crop whose centred offset (1, 2) was moved to the aligned origin (0, 2)
C3_Witness ==
    /\ Cropped /\ CropFits
    /\ args.crop_align = 2
    /\ (file.w - args.crop[1]) \div 2 = 1 /\ x = 0
    /\ (file.h - args.crop[2]) \div 2 = 2 /\ y = 2

\* C8: on a raw file the mosaic plane is copied into memory the image owns and
\* every read of the raw handle happens while the handle is open; once the
\* handle is released nothing has read it after the release, and the returned
\* image does not alias the handle's buffer.
C8_ReadsBeforeRelease ==
    /\ \A rd \in rawReads : rd[2] = "open"
    /\ raw = "released" => image.owner # "handle"
    /\ (pc = "done" /\ IsCr2(args.filename)) =>
         /\ raw = "released"
         /\ returned.owner = "owned"
         /\ <<"raw_image_visible", "open">> \in rawReads

\* a raw file was read with colour balance: all five attributes of the handle
\* were read, the handle is released and the image is returned
C8_Witness ==
    /\ pc = "done"
    /\ raw = "released"
    /\ { rd[1] : rd \in rawReads } =
         {"raw_image_visible", "raw_pattern", "color_desc", "black_level_per_channel",
          "daylight_whitebalance"}

\* C10 as claimed: whenever crop_image is applied with crop_align = 2 and a
\* requested crop no larger than the original, the resulting image has even
\* height and even width, so the 2 x 2 tiles of read_image cover it exactly.
C10_EvenAfterCrop ==
    (Cropped /\ CropFits /\ args.crop_align = 2)
    => IsEven(image.h) /\ IsEven(image.w) /\ BalanceOk(image)

\* C10 as amended: whenever crop_image is applied with crop_align = 2 and a
\* requested crop no larger than the original, the resulting image has exactly
\* the requested height and width and an even crop origin; the 2 x 2 tiles of
\* read_image cover it exactly when, and only when, the requested height and
\* width are both even.
C10_CropKeepsRequestedSize ==
    (Cropped /\ CropFits /\ args.crop_align = 2)
    => /\ image.h = args.crop[2] /\ image.w = args.crop[1]
       /\ IsEven(x) /\ IsEven(y)
       /\ BalanceOk(image) <=> (IsEven(args.crop[1]) /\ IsEven(args.crop[2]))

\* an odd crop of a raw file: the tiles do not fill it and the reshape raised
C10_Witness ==
    /\ pc = "raised"
    /\ raw = "released"
    /\ CropFits /\ args.crop_align = 2
    /\ ~IsEven(image.w) /\ image.w = args.crop[1]
    /\ IsEven(image.h) /\ image.h = args.crop[2]
    /\ <<"daylight_whitebalance", "open">> \in rawReads


\* ================================================================= centring
\* the <<row, column>> positions that hold a non-zero value
BrightSpots(t) ==
    { <<RowOf(t, k), ColOf(t, k)>> : k \in { j \in 0..(Size(t) - 1) : t.pix[j] # 0 } }

\* the values of the channels at a position
ValuesAt(t, q) == [ch \in 0..(t.c - 1) |-> t.pix[Flat(t, q[1], q[2], ch)]]

\* the value at index i equals the value at index S - 1 - i, along both
\* spatial dimensions
Symmetric(t) ==
    \A k \in 0..(Size(t) - 1) :
        /\ t.pix[k] = t.pix[Flat(t, t.h - 1 - RowOf(t, k), ColOf(t, k), ChanOf(t, k))]
        /\ t.pix[k] = t.pix[Flat(t, RowOf(t, k), t.w - 1 - ColOf(t, k), ChanOf(t, k))]

\* the shift center_image applies with only_even_shifts = False
PlainShift == center_shift(pad_image(tensor, opts.pad), FALSE, "x86")

\* C4: for an H x W image whose whole positive mass is in one pixel,
\* center_image with pad = 0 and only_even_shifts = False rolls the image so
\* that this pixel ends at a position (qy, qx) with |qy - H/2| <= 1 and
\* |qx - W/2| <= 1; a 4 x 4 image with the pixel at (0, 0) ends with it at (2, 2).
C4_SinglePixelNearCenter ==
    ( /\ op = "center_image"
      /\ opts.pad = 0 /\ ~opts.only_even_shifts
      /\ Cardinality(BrightSpots(tensor)) = 1
      /\ total_mass(tensor) > 0 )
    => /\ centered.h = tensor.h /\ centered.w = tensor.w /\ centered.c = tensor.c
       /\ Cardinality(BrightSpots(centered)) = 1
       /\ \A p \in BrightSpots(tensor), q \in BrightSpots(centered) :
            /\ ValuesAt(centered, q) = ValuesAt(tensor, p)
            /\ Abs(2 * q[1] - tensor.h) <= 2
            /\ Abs(2 * q[2] - tensor.w) <= 2
            /\ (tensor.h = 4 /\ tensor.w = 4 /\ p = <<0, 0>>) => q = <<2, 2>>

\* the 4 x 4 image with its only bright pixel at (0, 0) was centred to (2, 2)
C4_Witness ==
    /\ op = "center_image"
    /\ opts.pad = 0 /\ ~opts.only_even_shifts
    /\ tensor.h = 4 /\ tensor.w = 4
    /\ total_mass(tensor) > 0
    /\ BrightSpots(tensor) = {<<0, 0>>}
    /\ BrightSpots(centered) = {<<2, 2>>}

\* C6: for every image of non-zero total mass center_image with
\* only_even_shifts = True rolls the image by a shift that is even in each
\* spatial dimension, whatever the sign or size of the centroid offset.
C6_EvenShifts ==
    ( /\ op = "center_image"
      /\ opts.only_even_shifts
      /\ total_mass(tensor) # 0 )
    => IsEven(shift[1][1]) /\ IsEven(shift[1][2])

\* s is odd and positive along the width, odd and negative along the height
OddBothWays(s) == ~IsEven(s[1]) /\ s[1] > 0 /\ ~IsEven(s[2]) /\ s[2] < 0

\* the unmasked shift is odd along the width and negative and odd along the
\* height, and the image was rolled by a non-zero even shift
C6_Witness ==
    /\ op = "center_image"
    /\ opts.only_even_shifts
    /\ total_mass(tensor) # 0
    /\ OddBothWays(PlainShift)
    /\ shift[1][1] # 0 /\ shift[1][2] # 0
    /\ centered = tf_roll(pad_image(tensor, opts.pad), shift[1])

\* C7: for an image of non-zero total mass that is mirror-symmetric about its
\* centre along each spatial dimension, center_image with pad = 0 computes a
\* zero shift in every dimension and returns its input, so that applying
\* center_image again changes nothing.
C7_SymmetricFixed ==
    ( /\ op = "center_image"
      /\ opts.pad = 0
      /\ total_mass(tensor) # 0
      /\ Symmetric(tensor) )
    => /\ shift[1] = <<0, 0>>
       /\ centered = tensor
       /\ center_image(centered, 0, opts.only_even_shifts, "x86") = centered

\* a symmetric image with two bright pixels was centred
C7_Witness ==
    /\ op = "center_image"
    /\ opts.pad = 0
    /\ total_mass(tensor) # 0
    /\ Symmetric(tensor)
    /\ Cardinality(BrightSpots(tensor)) = 2
    /\ tensor.h > 1 /\ tensor.w > 1
    /\ centered = tensor

\* e is s forced to even toward zero
TowardZero(s, e) ==
    \A d \in 1..2 :
       /\ IsEven(e[d])
       /\ Abs(e[d]) <= Abs(s[d])
       /\ Abs(s[d] - e[d]) <= 1

\* e is s forced to even toward plus infinity
RoundsUp(s, e) ==
    \A d \in 1..2 :
       /\ IsEven(e[d])
       /\ s[d] <= e[d] /\ e[d] <= s[d] + 1
       /\ s[d] <= 0 => Abs(e[d]) <= Abs(s[d])
       /\ (s[d] > 0 /\ ~IsEven(s[d])) => e[d] = s[d] + 1

\* C9 as claimed: with only_even_shifts = True the shift component e is the
\* shift s of only_even_shifts = False forced to the nearest even integer
\* toward zero: e is even, |e| <= |s| and |s - e| <= 1, for positive and for
\* negative centroid offsets alike.
C9_EvenTowardZero ==
    ( /\ op = "center_image"
      /\ opts.only_even_shifts
      /\ total_mass(tensor) # 0 )
    => TowardZero(PlainShift, shift[1])

\* C9 as amended: with only_even_shifts = True the shift component e is the
\* shift s of only_even_shifts = False forced to the nearest even integer that
\* is not below s: e is even and s <= e <= s + 1. For a centroid offset that is
\* not negative (s <= 0) this is toward zero, |e| <= |s|; for a negative
\* centroid offset with an odd s it is away from zero, e = s + 1.
C9_EvenRoundsUp ==
    ( /\ op = "center_image"
      /\ opts.only_even_shifts
      /\ total_mass(tensor) # 0 )
    => RoundsUp(PlainShift, shift[1])

\* an odd positive shift was raised to the next even one along the width, an
\* odd negative shift was cut toward zero along the height
C9_Witness ==
    /\ op = "center_image"
    /\ opts.only_even_shifts
    /\ total_mass(tensor) # 0
    /\ PlainShift = <<1, -3>>
    /\ shift[1] = <<2, -2>>

\* C5: for every image and every channel c, channel c of
\* center_image_per_channel(image, pad = p, only_even_shifts = e) equals
\* center_image applied to that channel alone with the same pad = p and
\* only_even_shifts = e, for every p including p # 0.
C5_PerChannelIsCenterImage ==
    op = "center_image_per_channel"
    => \A ch \in 0..(tensor.c - 1) :
          total_mass(Channel(tensor, ch)) # 0
          => Channel(centered, ch)
               = center_image(Channel(tensor, ch), opts.pad, opts.only_even_shifts, "x86")


Init == ReadInit
Next == ReadNext
Spec == Init /\ [][Next]_vars

====
